---- MODULE Spec2Model ----
(***************************************************************************)
(* The memory scheduler of nncase (scheduler::schedule and the passes it   *)
(* runs, src/src/importer/onnx/ops/lstm.cpp lines 112-438) as a state      *)
(* machine.  One behaviour is one call of schedule() on one graph: the     *)
(* lifetime builder advances one visited node per step, every later pass   *)
(* is one step.                                                            *)
(***************************************************************************)
EXTENDS Integers, Sequences, FiniteSets, TLC

\* Largest inner extent ("width") of the tensors of the graphs explored.
MaxDim == 4

Widths == 1..MaxDim

-----------------------------------------------------------------------------
(* Sequences, shapes *)

Range(s) == {s[i] : i \in DOMAIN s}

RECURSIVE Product(_)
Product(s) == IF s = <<>> THEN 1 ELSE Head(s) * Product(Tail(s))

RECURSIVE SumSeq(_)
SumSeq(s) == IF s = <<>> THEN 0 ELSE Head(s) + SumSeq(Tail(s))

Zeros(n) == [i \in 1..n |-> 0]

Min2(a, b) == IF a < b THEN a ELSE b

Max2(a, b) == IF a > b THEN a ELSE b

SetMax(S) == IF S = {} THEN 0 ELSE CHOOSE x \in S : \A y \in S : y <= x

\* All orderings of the finite set S (an unordered container may be walked
\* in any of them).
RECURSIVE Perms(_)
Perms(S) ==
  IF S = {} THEN {<<>>}
  ELSE UNION {{<<x>> \o p : p \in Perms(S \ {x})} : x \in S}

\* Size in bytes of one element of a tensor of the given type.
ElementBytes(type) == IF type = "float32" THEN 4 ELSE 1

\* ir::get_bytes(type, shape)
GetBytes(type, shape) == ElementBytes(type) * Product(shape)

\* Element-wise shape addition (desc.begin += child_begin).
ShapeAdd(a, b) == [i \in DOMAIN a |-> a[i] + (IF i \in DOMAIN b THEN b[i] ELSE 0)]

\* to_strides: xt::compute_strides(shape, row_major, strides).  xtensor gives
\* a dimension of extent 1 the stride 0 and every other dimension the product
\* of the extents after it.
ToStrides(shape) ==
  [i \in DOMAIN shape |->
     IF shape[i] = 1 THEN 0
     ELSE Product(SubSeq(shape, i + 1, Len(shape)))]

\* xt::element_offset(strides, first, last): the inner product of the
\* trailing min(#strides, #index) entries of both.
ElementOffset(strides, index) ==
  LET size == Min2(Len(strides), Len(index))
  IN  SumSeq([j \in 1..size |->
                strides[Len(strides) - size + j] * index[Len(index) - size + j]])

-----------------------------------------------------------------------------
(* Graphs.  A node is [op, ins, outs, axis]: ins is the sequence of the     *)
(* output connectors <<node, k>> its input connectors are connected to, outs *)
(* the sequence of [shape, type] of its output connectors, axis the concat   *)
(* axis (0-based, as in the code).  An input connector without a producer  *)
(* is connected to NoConnector.  lost is the set of input connectors that   *)
(* the connections() list of their producer does not hold: empty in a       *)
(* well-formed graph.                                                       *)

NoConnector == <<0, 0>>

F32(shape) == [shape |-> shape, type |-> "float32"]

U8(shape) == [shape |-> shape, type |-> "uint8"]

Nd(op, ins, outs) == [op |-> op, ins |-> ins, outs |-> outs, axis |-> 0]

Cat(ins, out, axis) == [op |-> "concat", ins |-> ins, outs |-> <<out>>, axis |-> axis]

Gr(name, nodes, outputs) ==
  [name |-> name, nodes |-> nodes, outputs |-> outputs, lost |-> {}]

\* S1  input([1,w]) -> relu -> output
GraphS1(w) ==
  Gr("S1", << Nd("input", <<>>, <<F32(<<1, w>>)>>),
              Nd("relu", << <<1, 1>> >>, <<F32(<<1, w>>)>>),
              Nd("output", << <<2, 1>> >>, <<>>) >>, <<3>>)

\* S2  input([2,w]) -> reshape([2w]) -> relu -> output
GraphS2(w) ==
  Gr("S2", << Nd("input", <<>>, <<F32(<<2, w>>)>>),
              Nd("bitcast", << <<1, 1>> >>, <<F32(<<2 * w>>)>>),
              Nd("relu", << <<2, 1>> >>, <<F32(<<2 * w>>)>>),
              Nd("output", << <<3, 1>> >>, <<>>) >>, <<4>>)

\* S3  a([2,w]), b([3,w]) -> concat(axis 0) -> output
GraphS3(w) ==
  Gr("S3", << Nd("input", <<>>, <<F32(<<5, w>>)>>),
              Nd("unary", << <<1, 1>> >>, <<F32(<<2, w>>)>>),
              Nd("unary", << <<1, 1>> >>, <<F32(<<3, w>>)>>),
              Cat(<< <<2, 1>>, <<3, 1>> >>, F32(<<5, w>>), 0),
              Nd("output", << <<4, 1>> >>, <<>>) >>, <<5>>)

\* S4  as S3 with a a constant
GraphS4(w) ==
  Gr("S4", << Nd("constant", <<>>, <<F32(<<2, w>>)>>),
              Nd("input", <<>>, <<F32(<<3, w>>)>>),
              Nd("relu", << <<2, 1>> >>, <<F32(<<3, w>>)>>),
              Cat(<< <<1, 1>>, <<3, 1>> >>, F32(<<5, w>>), 0),
              Nd("output", << <<4, 1>> >>, <<>>) >>, <<5>>)

\* S5  concat1(x, y) -> concat2(concat1, z) -> output, both axis 0
GraphS5(w) ==
  Gr("S5", << Nd("input", <<>>, <<F32(<<1, w>>)>>),
              Nd("relu", << <<1, 1>> >>, <<F32(<<1, w>>)>>),
              Nd("unary", << <<1, 1>> >>, <<F32(<<2, w>>)>>),
              Nd("unary", << <<1, 1>> >>, <<F32(<<3, w>>)>>),
              Cat(<< <<2, 1>>, <<3, 1>> >>, F32(<<3, w>>), 0),
              Cat(<< <<5, 1>>, <<4, 1>> >>, F32(<<6, w>>), 0),
              Nd("output", << <<6, 1>> >>, <<>>) >>, <<7>>)

\* S6  input -> opA -> opB -> opC -> output, all shapes equal
GraphS6(w) ==
  Gr("S6", << Nd("input", <<>>, <<F32(<<1, w>>)>>),
              Nd("relu", << <<1, 1>> >>, <<F32(<<1, w>>)>>),
              Nd("relu", << <<2, 1>> >>, <<F32(<<1, w>>)>>),
              Nd("relu", << <<3, 1>> >>, <<F32(<<1, w>>)>>),
              Nd("output", << <<4, 1>> >>, <<>>) >>, <<5>>)

\* input -> bitcast -> output
GraphB1(w) ==
  Gr("B1", << Nd("input", <<>>, <<F32(<<2, w>>)>>),
              Nd("bitcast", << <<1, 1>> >>, <<F32(<<2 * w>>)>>),
              Nd("output", << <<2, 1>> >>, <<>>) >>, <<3>>)

\* input -> bitcast -> bitcast -> output
GraphB2(w) ==
  Gr("B2", << Nd("input", <<>>, <<F32(<<2, w>>)>>),
              Nd("bitcast", << <<1, 1>> >>, <<F32(<<2 * w>>)>>),
              Nd("bitcast", << <<2, 1>> >>, <<F32(<<w, 2>>)>>),
              Nd("output", << <<3, 1>> >>, <<>>) >>, <<4>>)

\* a([3,w]), y([4,w]) -> concat(axis 0) -> output; bitcast(y)([2,2w]) -> output
GraphBC(w) ==
  Gr("BC", << Nd("input", <<>>, <<F32(<<7, w>>)>>),
              Nd("unary", << <<1, 1>> >>, <<F32(<<3, w>>)>>),
              Nd("unary", << <<1, 1>> >>, <<F32(<<4, w>>)>>),
              Cat(<< <<2, 1>>, <<3, 1>> >>, F32(<<7, w>>), 0),
              Nd("output", << <<4, 1>> >>, <<>>),
              Nd("bitcast", << <<3, 1>> >>, <<F32(<<2, 2 * w>>)>>),
              Nd("output", << <<6, 1>> >>, <<>>) >>, <<5, 7>>)

\* x([2,w]) -> bitcast([1,2w]) = z; concat(y([1,2w]), z, axis 0) -> output
GraphCB(w) ==
  Gr("CB", << Nd("input", <<>>, <<F32(<<2, w>>)>>),
              Nd("relu", << <<1, 1>> >>, <<F32(<<2, w>>)>>),
              Nd("bitcast", << <<2, 1>> >>, <<F32(<<1, 2 * w>>)>>),
              Nd("unary", << <<1, 1>> >>, <<F32(<<1, 2 * w>>)>>),
              Cat(<< <<4, 1>>, <<3, 1>> >>, F32(<<2, 2 * w>>), 0),
              Nd("output", << <<5, 1>> >>, <<>>) >>, <<6>>)

\* a([2,w]) -> concat(a, a, axis 0) -> output
GraphCC(w) ==
  Gr("CC", << Nd("input", <<>>, <<F32(<<2, w>>)>>),
              Nd("relu", << <<1, 1>> >>, <<F32(<<2, w>>)>>),
              Cat(<< <<2, 1>>, <<2, 1>> >>, F32(<<4, w>>), 0),
              Nd("output", << <<3, 1>> >>, <<>>) >>, <<4>>)

\* a([2,w]), b([2,w]) -> concat(axis 1) -> output: the axis is not outermost
GraphCA(w) ==
  Gr("CA", << Nd("input", <<>>, <<F32(<<2, w>>)>>),
              Nd("relu", << <<1, 1>> >>, <<F32(<<2, w>>)>>),
              Nd("relu", << <<1, 1>> >>, <<F32(<<2, w>>)>>),
              Cat(<< <<2, 1>>, <<3, 1>> >>, F32(<<2, 2 * w>>), 1),
              Nd("output", << <<4, 1>> >>, <<>>) >>, <<5>>)

\* x([1,w]), y([1,2]) -> concat1(axis 1) -> concat2(concat1, z, axis 0) -> output
GraphCM(w) ==
  Gr("CM", << Nd("input", <<>>, <<F32(<<1, w>>)>>),
              Nd("relu", << <<1, 1>> >>, <<F32(<<1, w>>)>>),
              Nd("unary", << <<1, 1>> >>, <<F32(<<1, 2>>)>>),
              Nd("unary", << <<1, 1>> >>, <<F32(<<1, w + 2>>)>>),
              Cat(<< <<2, 1>>, <<3, 1>> >>, F32(<<1, w + 2>>), 1),
              Cat(<< <<5, 1>>, <<4, 1>> >>, F32(<<2, w + 2>>), 0),
              Nd("output", << <<6, 1>> >>, <<>>) >>, <<7>>)

\* input -> split -> (s1([1,w]), s2([2,w]), s3 unused); relu(s1), relu(s2) -> outputs
GraphSP(w) ==
  Gr("SP", << Nd("input", <<>>, <<F32(<<3, w>>)>>),
              Nd("split", << <<1, 1>> >>, <<F32(<<1, w>>), F32(<<2, w>>), U8(<<w>>)>>),
              Nd("relu", << <<2, 1>> >>, <<F32(<<1, w>>)>>),
              Nd("relu", << <<2, 2>> >>, <<F32(<<2, w>>)>>),
              Nd("output", << <<3, 1>> >>, <<>>),
              Nd("output", << <<4, 1>> >>, <<>>) >>, <<5, 6>>)

\* S1 with one more consumer of the input that no graph output reaches
GraphDN(w) ==
  Gr("DN", << Nd("input", <<>>, <<F32(<<1, w>>)>>),
              Nd("relu", << <<1, 1>> >>, <<F32(<<1, w>>)>>),
              Nd("output", << <<2, 1>> >>, <<>>),
              Nd("relu", << <<1, 1>> >>, <<F32(<<1, w>>)>>) >>, <<3>>)

\* input -> relu -> bitcast -> relu -> output
GraphRV(w) ==
  Gr("RV", << Nd("input", <<>>, <<F32(<<2, w>>)>>),
              Nd("relu", << <<1, 1>> >>, <<F32(<<2, w>>)>>),
              Nd("bitcast", << <<2, 1>> >>, <<F32(<<2 * w>>)>>),
              Nd("relu", << <<3, 1>> >>, <<F32(<<2 * w>>)>>),
              Nd("output", << <<4, 1>> >>, <<>>) >>, <<5>>)

\* input([3,w]) -> slice([1,w]) = s, relu([2,w]) = r; concat(s, r, axis 0) -> output
GraphSL(w) ==
  Gr("SL", << Nd("input", <<>>, <<F32(<<3, w>>)>>),
              Nd("slice", << <<1, 1>> >>, <<F32(<<1, w>>)>>),
              Nd("relu", << <<1, 1>> >>, <<F32(<<2, w>>)>>),
              Cat(<< <<2, 1>>, <<3, 1>> >>, F32(<<3, w>>), 0),
              Nd("output", << <<4, 1>> >>, <<>>) >>, <<5>>)

\* a = input([1,w]), r = relu(a); concat(a, r, axis 0) -> output
GraphCI(w) ==
  Gr("CI", << Nd("input", <<>>, <<F32(<<1, w>>)>>),
              Nd("relu", << <<1, 1>> >>, <<F32(<<1, w>>)>>),
              Cat(<< <<1, 1>>, <<2, 1>> >>, F32(<<2, w>>), 0),
              Nd("output", << <<3, 1>> >>, <<>>) >>, <<4>>)

\* c1 = concat(x, y); c2 = concat(c1, x) and c3 = concat(c1, y) -> outputs:
\* the output of c1 has two concat consumers
GraphC2(w) ==
  Gr("C2", << Nd("input", <<>>, <<F32(<<1, w>>)>>),
              Nd("relu", << <<1, 1>> >>, <<F32(<<1, w>>)>>),
              Nd("unary", << <<1, 1>> >>, <<F32(<<1, w>>)>>),
              Cat(<< <<2, 1>>, <<3, 1>> >>, F32(<<2, w>>), 0),
              Cat(<< <<4, 1>>, <<2, 1>> >>, F32(<<3, w>>), 0),
              Cat(<< <<4, 1>>, <<3, 1>> >>, F32(<<3, w>>), 0),
              Nd("output", << <<5, 1>> >>, <<>>),
              Nd("output", << <<6, 1>> >>, <<>>) >>, <<7, 8>>)

\* relu with an input connector nobody is connected to -> output
GraphDG(w) ==
  Gr("DG", << Nd("relu", <<NoConnector>>, <<F32(<<1, w>>)>>),
              Nd("output", << <<1, 1>> >>, <<>>) >>, <<2>>)

\* input -> relu -> relu -> output; the first relu's output does not list the
\* second relu among its connections
GraphMF(w) ==
  [Gr("MF", << Nd("input", <<>>, <<F32(<<1, w>>)>>),
               Nd("relu", << <<1, 1>> >>, <<F32(<<1, w>>)>>),
               Nd("relu", << <<2, 1>> >>, <<F32(<<1, w>>)>>),
               Nd("output", << <<3, 1>> >>, <<>>) >>, <<4>>)
     EXCEPT !.lost = {<<3, 1>>}]

\* input -> relu -> bitcast -> bitcast -> bitcast -> relu -> output
GraphB3(w) ==
  Gr("B3", << Nd("input", <<>>, <<F32(<<2, w>>)>>),
              Nd("relu", << <<1, 1>> >>, <<F32(<<2, w>>)>>),
              Nd("bitcast", << <<2, 1>> >>, <<F32(<<2 * w>>)>>),
              Nd("bitcast", << <<3, 1>> >>, <<F32(<<1, 2 * w>>)>>),
              Nd("bitcast", << <<4, 1>> >>, <<F32(<<w, 2>>)>>),
              Nd("relu", << <<5, 1>> >>, <<F32(<<w, 2>>)>>),
              Nd("output", << <<6, 1>> >>, <<>>) >>, <<7>>)

Graphs ==
  UNION {{GraphS1(w), GraphS2(w), GraphS3(w), GraphS4(w), GraphS5(w), GraphS6(w),
          GraphB1(w), GraphB2(w), GraphBC(w), GraphCB(w), GraphCC(w), GraphCA(w),
          GraphCM(w), GraphSP(w), GraphDN(w), GraphRV(w), GraphSL(w), GraphCI(w),
          GraphC2(w), GraphDG(w), GraphMF(w), GraphB3(w)} : w \in Widths}

-----------------------------------------------------------------------------
(* Graph accessors *)

NodeIds(G) == DOMAIN G.nodes

Opcode(G, n) == G.nodes[n].op

\* node.outputs()
Outputs(G, n) == [k \in DOMAIN G.nodes[n].outs |-> <<n, k>>]

\* node.inputs(), each given by in->connection()
Inputs(G, n) == G.nodes[n].ins

Shape(G, c) == G.nodes[c[1]].outs[c[2]].shape

Type(G, c) == G.nodes[c[1]].outs[c[2]].type

AllConnectors(G) ==
  UNION {{<<n, k>> : k \in DOMAIN G.nodes[n].outs} : n \in NodeIds(G)}

\* conn.connections(): the input connectors <<node, i>> connected to c
Connections(G, c) ==
  UNION {{<<m, i>> : i \in {j \in DOMAIN G.nodes[m].ins : G.nodes[m].ins[j] = c}} :
           m \in NodeIds(G)} \ G.lost

\* The order in which a relay_ir_visitor started at the output nodes calls
\* its callback: depth first along the connected inputs, a node after its
\* producers, each node once.
RECURSIVE Dfs(_, _, _), DfsInputs(_, _, _, _)
Dfs(G, n, seen) ==
  IF n \in Range(seen) THEN seen
  ELSE Append(DfsInputs(G, n, 1, seen), n)
DfsInputs(G, n, i, seen) ==
  IF i > Len(G.nodes[n].ins) THEN seen
  ELSE IF G.nodes[n].ins[i] = NoConnector THEN DfsInputs(G, n, i + 1, seen)
  ELSE DfsInputs(G, n, i + 1, Dfs(G, G.nodes[n].ins[i][1], seen))

RECURSIVE DfsRoots(_, _, _)
DfsRoots(G, i, seen) ==
  IF i > Len(G.outputs) THEN seen
  ELSE DfsRoots(G, i + 1, Dfs(G, G.outputs[i], seen))

VisitOrder(G) == DfsRoots(G, 1, <<>>)

\* The attributes a node is constructed with: every node that computes
\* something carries the action bit; the placeholders do not.
InitialAction(G, n) == Opcode(G, n) \notin {"input", "output", "constant"}

-----------------------------------------------------------------------------
(* State *)

VARIABLES
  graph,            \* the graph being scheduled (the scheduler's main_graph and outputs_)
  target,           \* the placement policy of the allocators the target registers
  attrs,            \* node -> whether the node carries node_attr_action
  pc,               \* the pass schedule() is about to run
  visited,          \* number of nodes the lifetime builder's walk has visited
  cnt_age,          \* lifetime_recorder::cnt_age_
  next_buffer_id,   \* lifetime_recorder::next_buffer_id_
  logical_buffers,  \* scheduler::logical_buffers_: connector -> logical buffer
  map_order,        \* the order in which logical_buffers_ is iterated
  physical_buffers, \* scheduler::physical_buffers_
  result            \* the schedule_result under construction

vars == <<graph, target, attrs, pc, visited, cnt_age, next_buffer_id,
          logical_buffers, map_order, physical_buffers, result>>

Regions == {"input", "output", "rdata", "data"}

NoParent == [has |-> FALSE, parent |-> <<0, 0>>, begin |-> <<>>]

ParentDesc(p, begin) == [has |-> TRUE, parent |-> p, begin |-> begin]

\* buffer_lifetime::is_alive and buffer_lifetime::end
IsAlive(b) == b.used_count > 0

End(b) == b.birth + b.age

-----------------------------------------------------------------------------
(* 1. Lifetime builder *)

\* decide_memory_location without the test for a consuming graph output
decide_memory_location_no_output(G, c) ==
  IF Opcode(G, c[1]) = "input" THEN "input"
  ELSE IF Opcode(G, c[1]) = "constant" THEN "rdata"
  ELSE "data"

decide_memory_location(G, c) ==
  IF Opcode(G, c[1]) = "input" THEN "input"
  ELSE IF Opcode(G, c[1]) = "constant" THEN "rdata"
  ELSE IF \E in \in Connections(G, c) : Opcode(G, in[1]) = "output" THEN "output"
  ELSE "data"

\* lifetime_recorder::allocate on the k-th and later outputs of node n;
\* st = [bufs, next_id]
RECURSIVE AllocateOutputs(_, _, _, _, _)
AllocateOutputs(G, st, age, n, k) ==
  IF k > Len(G.nodes[n].outs) THEN st
  ELSE LET c == <<n, k>>
           buffer == [id |-> st.next_id,
                      memory_location |-> decide_memory_location(G, c),
                      birth |-> age,
                      age |-> 0,
                      used_count |-> Cardinality(Connections(G, c)),
                      parent |-> NoParent,
                      physical |-> -1]
       IN  IF c \in DOMAIN st.bufs
           THEN AllocateOutputs(G, st, age, n, k + 1)
           ELSE AllocateOutputs(G, [bufs |-> st.bufs @@ (c :> buffer),
                                    next_id |-> st.next_id + 1], age, n, k + 1)

\* lifetime_recorder::grow_age on every buffer, alive or not
GrowAgeAll(bufs) == [c \in DOMAIN bufs |-> [bufs[c] EXCEPT !.age = @ + 1]]

\* lifetime_recorder::grow_age, the part that touches the buffers
GrowAge(bufs) ==
  [c \in DOMAIN bufs |->
     IF IsAlive(bufs[c]) THEN [bufs[c] EXCEPT !.age = @ + 1] ELSE bufs[c]]

\* lifetime_recorder::release without the look at is_alive
ReleaseUnchecked(bufs, c) ==
  IF c \notin DOMAIN bufs THEN [bufs |-> bufs, thrown |-> FALSE]
  ELSE [bufs |-> [bufs EXCEPT ![c].used_count = @ - 1], thrown |-> FALSE]

\* lifetime_recorder::release; thrown stands for the std::runtime_error
Release(bufs, c) ==
  IF c \notin DOMAIN bufs THEN [bufs |-> bufs, thrown |-> FALSE]
  ELSE IF ~IsAlive(bufs[c]) THEN [bufs |-> bufs, thrown |-> TRUE]
  ELSE [bufs |-> [bufs EXCEPT ![c].used_count = @ - 1], thrown |-> FALSE]

\* The loop over the i-th and later inputs of node n; st = [bufs, thrown].
\* With the assertion compiled out an unconnected input reaches release as
\* a null reference, which the lookup does not find.
RECURSIVE ReleaseInputs(_, _, _, _)
ReleaseInputs(G, st, n, i) ==
  IF st.thrown \/ i > Len(G.nodes[n].ins) THEN st
  ELSE ReleaseInputs(G, Release(st.bufs, G.nodes[n].ins[i]), n, i + 1)

\* The callback with the inputs released before the clock advances
LifetimeVisitReleaseFirst(G, bufs, next_id, age, n) ==
  LET a == AllocateOutputs(G, [bufs |-> bufs, next_id |-> next_id], age, n, 1)
      r == ReleaseInputs(G, [bufs |-> a.bufs, thrown |-> FALSE], n, 1)
  IN  [bufs |-> GrowAge(r.bufs), next_id |-> a.next_id, age |-> age + 1, thrown |-> r.thrown]

\* The callback of make_logical_buffers on node n
LifetimeVisit(G, bufs, next_id, age, n) ==
  LET a == AllocateOutputs(G, [bufs |-> bufs, next_id |-> next_id], age, n, 1)
      r == ReleaseInputs(G, [bufs |-> GrowAge(a.bufs), thrown |-> FALSE], n, 1)
  IN  [bufs |-> r.bufs, next_id |-> a.next_id, age |-> age + 1, thrown |-> r.thrown]

EmptyResult ==
  [compute_sequence |-> <<>>, allocations |-> <<>>, max_usages |-> <<>>]

Init ==
  /\ graph \in Graphs
  /\ target \in {"first_fit", "any_fit"}
  /\ attrs = [n \in NodeIds(graph) |-> InitialAction(graph, n)]
  /\ pc = "make_logical_buffers"
  /\ visited = 0
  /\ cnt_age = 0
  /\ next_buffer_id = 0
  /\ logical_buffers = <<>>
  /\ map_order = <<>>
  /\ physical_buffers = <<>>
  /\ result = EmptyResult

\* make_logical_buffers: the visitor calls the callback on the next node.
\* On an unconnected input assert(out) ends the process when assertions are
\* compiled in; when they are not, release(*out) is called on a null
\* reference and the pass goes on.
MakeLogicalBuffersVisit ==
  /\ pc = "make_logical_buffers"
  /\ visited < Len(VisitOrder(graph))
  /\ LET n == VisitOrder(graph)[visited + 1]
         v == LifetimeVisit(graph, logical_buffers, next_buffer_id, cnt_age, n)
     IN  /\ logical_buffers' = v.bufs
         /\ next_buffer_id' = v.next_id
         /\ cnt_age' = v.age
         /\ visited' = visited + 1
         /\ \/ /\ NoConnector \in Range(Inputs(graph, n))
               /\ pc' = "aborted"
            \/ pc' = IF v.thrown THEN "failed"
                     ELSE IF visited + 1 = Len(VisitOrder(graph))
                     THEN "analyze_buffer_alias"
                     ELSE "make_logical_buffers"
  /\ UNCHANGED <<graph, target, attrs, map_order, physical_buffers, result>>

-----------------------------------------------------------------------------
(* 2. Alias analyser; st = [bufs, attrs] *)

\* The test that keeps every bitcast into an output buffer a copy
MustCopyAnyOutput(out_loc, in_loc) == out_loc = "output"

\* The bitcast rule's test "input & rdata should be copied to output": TRUE
\* when the bitcast has to stay a copy.
MustCopy(out_loc, in_loc) ==
  ~(out_loc # "output" \/ (in_loc # "input" /\ in_loc # "rdata"))

BitcastRule(G, st, n) ==
  LET input == Inputs(G, n)[1]
      out == <<n, 1>>
      b1 == IF st.bufs[out].memory_location = "output"
               /\ st.bufs[input].memory_location = "data"
            THEN [st.bufs EXCEPT ![input].memory_location = "output"]
            ELSE st.bufs
  IN  IF ~MustCopy(b1[out].memory_location, b1[input].memory_location)
      THEN [bufs |-> [b1 EXCEPT ![out].parent =
                         ParentDesc(input, Zeros(Len(Shape(G, input))))],
            attrs |-> [st.attrs EXCEPT ![n] = FALSE]]
      ELSE [bufs |-> b1, attrs |-> st.attrs]

\* The test without the look at the producers of the inputs
ConcatIsViewAnyProducer(G, bufs, n) ==
  LET inputs == Inputs(G, n)
      axis == G.nodes[n].axis
      shape0 == Shape(G, inputs[1])
  IN  /\ (axis = 0 \/ \A d \in 1..axis : shape0[d] = 1)
      /\ \A i \in DOMAIN inputs :
            bufs[inputs[i]].memory_location \notin {"input", "rdata"}
      /\ Cardinality({in \in Connections(G, <<n, 1>>) : Opcode(G, in[1]) = "concat"}) < 2

\* The test "simple & exclusive concat"
ConcatIsView(G, bufs, n) ==
  LET inputs == Inputs(G, n)
      axis == G.nodes[n].axis
      shape0 == Shape(G, inputs[1])
  IN  /\ (axis = 0 \/ \A d \in 1..axis : shape0[d] = 1)
      /\ \A i \in DOMAIN inputs :
            /\ bufs[inputs[i]].memory_location \notin {"input", "rdata"}
            /\ Opcode(G, inputs[i][1]) # "slice"
      /\ Cardinality({in \in Connections(G, <<n, 1>>) : Opcode(G, in[1]) = "concat"}) < 2

ConcatRule(G, st, n) ==
  IF ConcatIsView(G, st.bufs, n)
  THEN [st EXCEPT !.attrs[n] = FALSE]
  ELSE st

AliasVisit(G, st, n) ==
  IF Opcode(G, n) = "bitcast" THEN BitcastRule(G, st, n)
  ELSE IF Opcode(G, n) = "concat" THEN ConcatRule(G, st, n)
  ELSE st

RECURSIVE AliasWalk(_, _, _)
AliasWalk(G, st, i) ==
  IF i > Len(VisitOrder(G)) THEN st
  ELSE AliasWalk(G, AliasVisit(G, st, VisitOrder(G)[i]), i + 1)

analyze_buffer_alias(G, bufs, at) == AliasWalk(G, [bufs |-> bufs, attrs |-> at], 1)

AnalyzeBufferAlias ==
  /\ pc = "analyze_buffer_alias"
  /\ LET st == analyze_buffer_alias(graph, logical_buffers, attrs)
     IN  /\ logical_buffers' = st.bufs
         /\ attrs' = st.attrs
  /\ pc' = "fix_concat_indices"
  /\ UNCHANGED <<graph, target, visited, cnt_age, next_buffer_id, map_order,
                 physical_buffers, result>>

-----------------------------------------------------------------------------
(* 3. Concat index resolver *)

\* try_get_direct_child<concat>(node): the concat that is the one consumer
\* of the node's output, 0 when there is none
DirectChildConcat(G, n) ==
  LET cs == Connections(G, <<n, 1>>)
  IN  IF Cardinality(cs) = 1 /\ \A in \in cs : Opcode(G, in[1]) = "concat"
      THEN (CHOOSE in \in cs : TRUE)[1]
      ELSE 0

\* get_input_index(node, output): position (from 0) of the first input of
\* the node that is connected to the output
GetInputIndex(G, n, c) ==
  (CHOOSE i \in DOMAIN Inputs(G, n) :
      /\ Inputs(G, n)[i] = c
      /\ \A j \in 1..(i - 1) : Inputs(G, n)[j] # c) - 1

\* concat::concat_dims(): the extent of every input along the axis
ConcatDims(G, n) ==
  [i \in DOMAIN Inputs(G, n) |-> Shape(G, Inputs(G, n)[i])[G.nodes[n].axis + 1]]

\* "1. Init indices" with the running offset advanced before it is recorded
RECURSIVE InitIndicesAdvanceFirst(_, _, _, _, _)
InitIndicesAdvanceFirst(G, bufs, c, i, cnt_begin) ==
  IF i > Len(Inputs(G, c)) THEN bufs
  ELSE LET in == Inputs(G, c)[i]
           axis == G.nodes[c].axis
           next == [cnt_begin EXCEPT ![axis + 1] = @ + Shape(G, in)[axis + 1]]
       IN  InitIndicesAdvanceFirst(G, [bufs EXCEPT ![in].parent = ParentDesc(<<c, 1>>, next)],
                                   c, i + 1, next)

\* "1. Init indices", from the i-th input of concat c on
RECURSIVE InitIndices(_, _, _, _, _)
InitIndices(G, bufs, c, i, cnt_begin) ==
  IF i > Len(Inputs(G, c)) THEN bufs
  ELSE LET in == Inputs(G, c)[i]
           axis == G.nodes[c].axis
       IN  InitIndices(G, [bufs EXCEPT ![in].parent = ParentDesc(<<c, 1>>, cnt_begin)],
                       c, i + 1,
                       [cnt_begin EXCEPT ![axis + 1] = @ + Shape(G, in)[axis + 1]])

\* The inner loop of "2. Iterate parent": every input of c is re-pointed at
\* out and moved by child_begin
RECURSIVE Repoint(_, _, _, _, _, _)
Repoint(G, bufs, c, i, out, child_begin) ==
  IF i > Len(Inputs(G, c)) THEN bufs
  ELSE LET in == Inputs(G, c)[i]
       IN  Repoint(G, [bufs EXCEPT ![in].parent =
                          ParentDesc(out, ShapeAdd(@.begin, child_begin))],
                   c, i + 1, out, child_begin)

\* "2. Iterate parent", with the chain climbed up to child
RECURSIVE IterateParent(_, _, _, _, _)
IterateParent(G, at, bufs, c, child) ==
  LET parent == DirectChildConcat(G, child)
  IN  IF parent = 0 \/ at[parent] THEN bufs
      ELSE LET index == GetInputIndex(G, parent, <<child, 1>>)
               axis == G.nodes[parent].axis
               child_begin ==
                 [Zeros(Len(Shape(G, <<child, 1>>))) EXCEPT ![axis + 1] =
                     @ + SumSeq(SubSeq(ConcatDims(G, parent), 1, index))]
               b1 == [bufs EXCEPT ![<<child, 1>>].parent =
                         ParentDesc(<<parent, 1>>, child_begin)]
           IN  IterateParent(G, at, Repoint(G, b1, c, 1, <<parent, 1>>, child_begin),
                             c, parent)

ConcatVisit(G, at, bufs, n) ==
  IF Opcode(G, n) = "concat" /\ ~at[n]
  THEN IterateParent(G, at,
                     InitIndices(G, bufs, n, 1, Zeros(Len(Shape(G, Inputs(G, n)[1])))),
                     n, n)
  ELSE bufs

RECURSIVE ConcatWalk(_, _, _, _)
ConcatWalk(G, at, bufs, i) ==
  IF i > Len(VisitOrder(G)) THEN bufs
  ELSE ConcatWalk(G, at, ConcatVisit(G, at, bufs, VisitOrder(G)[i]), i + 1)

fix_concat_indices(G, at, bufs) == ConcatWalk(G, at, bufs, 1)

FixConcatIndices ==
  /\ pc = "fix_concat_indices"
  /\ logical_buffers' = fix_concat_indices(graph, attrs, logical_buffers)
  /\ pc' = "fix_lifetime"
  /\ UNCHANGED <<graph, target, attrs, visited, cnt_age, next_buffer_id, map_order,
                 physical_buffers, result>>

-----------------------------------------------------------------------------
(* 4. Lifetime closer; order is the iteration order of logical_buffers_ *)

\* A single step p = p->parent->parent() in place of the loop
PromoteOnce(bufs, p) ==
  IF bufs[p.parent].parent.has THEN bufs[p.parent].parent ELSE p

\* while (p->parent->parent()) p = p->parent->parent();
RECURSIVE Promote(_, _)
Promote(bufs, p) ==
  IF bufs[p.parent].parent.has THEN Promote(bufs, bufs[p.parent].parent) ELSE p

\* "Assign parent"
RECURSIVE AssignParent(_, _, _)
AssignParent(bufs, order, i) ==
  IF i > Len(order) THEN bufs
  ELSE LET c == order[i]
       IN  AssignParent(IF bufs[c].parent.has
                        THEN [bufs EXCEPT ![c].parent = Promote(bufs, @)]
                        ELSE bufs,
                        order, i + 1)

\* "Extend lifetime" that moves the birth of the parent and keeps its age
RECURSIVE ExtendLifetimeKeepAge(_, _, _)
ExtendLifetimeKeepAge(bufs, order, i) ==
  IF i > Len(order) THEN bufs
  ELSE LET c == order[i]
           r == bufs[c].parent.parent
           birth == Min2(bufs[c].birth, bufs[r].birth)
       IN  ExtendLifetimeKeepAge(IF bufs[c].parent.has
                                 THEN [bufs EXCEPT ![r].birth = birth]
                                 ELSE bufs,
                                 order, i + 1)

\* "Extend lifetime"
RECURSIVE ExtendLifetime(_, _, _)
ExtendLifetime(bufs, order, i) ==
  IF i > Len(order) THEN bufs
  ELSE LET c == order[i]
           r == bufs[c].parent.parent
           birth == Min2(bufs[c].birth, bufs[r].birth)
           end == Max2(End(bufs[c]), End(bufs[r]))
       IN  ExtendLifetime(IF bufs[c].parent.has
                          THEN [bufs EXCEPT ![r].birth = birth, ![r].age = end - birth]
                          ELSE bufs,
                          order, i + 1)

fix_lifetime(bufs, order) == ExtendLifetime(AssignParent(bufs, order, 1), order, 1)

FixLifetime ==
  /\ pc = "fix_lifetime"
  /\ \E order \in Perms(DOMAIN logical_buffers) :
        /\ map_order' = order
        /\ logical_buffers' = fix_lifetime(logical_buffers, order)
  /\ pc' = "generate_compute_sequence"
  /\ UNCHANGED <<graph, target, attrs, visited, cnt_age, next_buffer_id,
                 physical_buffers, result>>

-----------------------------------------------------------------------------
(* 5. Compute sequence emitter *)

\* The emitter without the test of the action bit
generate_compute_sequence_all(G, at) == VisitOrder(G)

generate_compute_sequence(G, at) == SelectSeq(VisitOrder(G), LAMBDA n : at[n])

GenerateComputeSequence ==
  /\ pc = "generate_compute_sequence"
  /\ result' = [result EXCEPT !.compute_sequence = generate_compute_sequence(graph, attrs)]
  /\ pc' = "make_physical_buffers"
  /\ UNCHANGED <<graph, target, attrs, visited, cnt_age, next_buffer_id,
                 logical_buffers, map_order, physical_buffers>>

-----------------------------------------------------------------------------
(* 6. Physical pool *)

NoAllocation == [start |-> 0, size |-> 0]

\* The first loop without the test of the parent: one physical buffer per
\* logical buffer
PhysicalPoolAll(bufs, order) ==
  [i \in DOMAIN order |-> [id |-> i - 1, owner |-> order[i], allocation |-> NoAllocation]]

\* The first loop: one physical buffer per logical buffer without parent, in
\* iteration order, its id the number of physical buffers made before it
PhysicalPool(bufs, order) ==
  LET roots == SelectSeq(order, LAMBDA c : ~bufs[c].parent.has)
  IN  [i \in DOMAIN roots |-> [id |-> i - 1, owner |-> roots[i], allocation |-> NoAllocation]]

\* physical_ids.at(parent)
PhysicalId(pool, c) == (CHOOSE p \in Range(pool) : p.owner = c).id

\* "Assign parents": the buffer whose physical buffer a logical buffer gets
PhysicalOwner(bufs, c) == IF bufs[c].parent.has THEN bufs[c].parent.parent ELSE c

BindPhysical(bufs, pool) ==
  [c \in DOMAIN bufs |->
     [bufs[c] EXCEPT !.physical = PhysicalId(pool, PhysicalOwner(bufs, c))]]

MakePhysicalBuffers ==
  /\ pc = "make_physical_buffers"
  /\ physical_buffers' = PhysicalPool(logical_buffers, map_order)
  /\ logical_buffers' = BindPhysical(logical_buffers, PhysicalPool(logical_buffers, map_order))
  /\ map_order' = <<>>
  /\ pc' = "allocate_physical_buffers"
  /\ UNCHANGED <<graph, target, attrs, visited, cnt_age, next_buffer_id, result>>

-----------------------------------------------------------------------------
(* 7. Region allocator *)

\* physical_buffer::lifetime(): the lifetime of the owner
PhysLifetime(bufs, p) == [birth |-> bufs[p.owner].birth, end |-> End(bufs[p.owner])]

\* The orders std::sort may leave the physical buffers in: every order in
\* which birth never decreases (the sort is not stable)
RECURSIVE SortedOrders(_, _, _)
SortedOrders(bufs, pool, S) ==
  IF S = {} THEN {<<>>}
  ELSE UNION {{<<i>> \o o : o \in SortedOrders(bufs, pool, S \ {i})} :
                i \in {j \in S : \A k \in S :
                         PhysLifetime(bufs, pool[j]).birth <= PhysLifetime(bufs, pool[k]).birth}}

\* The allocator a physical buffer is marked in (line 380)
MarkRegion(bufs, p) == bufs[p.owner].memory_location

\* The bytes the allocator reserves for a physical buffer
PhysSize(G, p) == GetBytes(Type(G, p.owner), Shape(G, p.owner))

LifetimesIntersect(a, b) == Max2(a.birth, b.birth) < Min2(a.end, b.end)

RangesOverlap(s1, n1, s2, n2) == s1 < s2 + n2 /\ s2 < s1 + n1

\* buffer_allocator::mark: the starts the allocator of the region may bind
\* pool[i] to, given the buffers marked so far (index -> [start, size]).  A
\* first-fit allocator takes the lowest free start, any other allocator some
\* free start.
Fits(G, tgt, bufs, pool, marked, i) ==
  LET live == {j \in DOMAIN marked :
                 /\ MarkRegion(bufs, pool[j]) = MarkRegion(bufs, pool[i])
                 /\ LifetimesIntersect(PhysLifetime(bufs, pool[j]), PhysLifetime(bufs, pool[i]))}
      size == PhysSize(G, pool[i])
      free == {s \in {0} \cup {marked[j].start + marked[j].size : j \in live} :
                 \A j \in live : ~RangesOverlap(s, size, marked[j].start, marked[j].size)}
  IN  IF tgt = "first_fit"
      THEN {CHOOSE s \in free : \A t \in free : s <= t}
      ELSE free

\* for (auto &b : orders) allocators.at(...)->mark(*b): every outcome of
\* marking orders[k], orders[k+1], ...
RECURSIVE MarkAll(_, _, _, _, _, _, _)
MarkAll(G, tgt, bufs, pool, orders, k, marked) ==
  IF k > Len(orders) THEN {marked}
  ELSE UNION {MarkAll(G, tgt, bufs, pool, orders, k + 1,
                      marked @@ (orders[k] :> [start |-> s, size |-> PhysSize(G, pool[orders[k]])])) :
                s \in Fits(G, tgt, bufs, pool, marked, orders[k])}

\* buffer_allocator::max_usage() of the allocator of a region after finish()
MaxUsage(bufs, pool, marked, region) ==
  SetMax({marked[j].start + marked[j].size :
            j \in {k \in DOMAIN marked : MarkRegion(bufs, pool[k]) = region}})

\* The lookup keyed by the region alone: the allocation of the first buffer
\* marked in the region of pool[i]
AllocationOfRegion(bufs, pool, marked, i) ==
  marked[CHOOSE j \in DOMAIN marked :
           /\ MarkRegion(bufs, pool[j]) = MarkRegion(bufs, pool[i])
           /\ \A k \in DOMAIN marked :
                 MarkRegion(bufs, pool[k]) = MarkRegion(bufs, pool[i]) => j <= k]

\* allocators.at(b.owner().memory_location())->allocations().at(&b) (line 389)
AllocationOf(bufs, pool, marked, i) == marked[i]

\* Every (physical_buffers_, max_usages) allocate_physical_buffers can produce
allocate_physical_buffers(G, tgt, bufs, pool) ==
  {[pool |-> [i \in DOMAIN pool |->
                 [pool[i] EXCEPT !.allocation = AllocationOf(bufs, pool, m, i)]],
    max_usages |-> [r \in Regions |-> MaxUsage(bufs, pool, m, r)]] :
     m \in UNION {MarkAll(G, tgt, bufs, pool, o, 1, <<>>) :
                    o \in SortedOrders(bufs, pool, DOMAIN pool)}}

AllocatePhysicalBuffers ==
  /\ pc = "allocate_physical_buffers"
  /\ \E a \in allocate_physical_buffers(graph, target, logical_buffers, physical_buffers) :
        /\ physical_buffers' = a.pool
        /\ result' = [result EXCEPT !.max_usages = a.max_usages]
  /\ pc' = "assign_allocations"
  /\ UNCHANGED <<graph, target, attrs, visited, cnt_age, next_buffer_id,
                 logical_buffers, map_order>>

-----------------------------------------------------------------------------
(* 8. Allocation materialiser *)

\* The buffer_allocation made for output connector c
BufferAllocation(G, bufs, pool, c) ==
  LET lbuf == bufs[c]
      phys == CHOOSE p \in Range(pool) : p.id = lbuf.physical
      owner == phys.owner
      memory == phys.allocation
      parent_shape == IF lbuf.parent.has /\ Opcode(G, c[1]) # "bitcast"
                      THEN Shape(G, owner)
                      ELSE Shape(G, c)
      strides == ToStrides(parent_shape)
  IN  [memory_location |-> bufs[owner].memory_location,
       type |-> Type(G, c),
       size |-> GetBytes(Type(G, c), Shape(G, c)),
       shape |-> Shape(G, c),
       parent_shape |-> parent_shape,
       strides |-> strides,
       start |-> IF lbuf.parent.has
                 THEN memory.start
                        + ElementBytes(Type(G, c)) * ElementOffset(strides, lbuf.parent.begin)
                 ELSE memory.start]

\* Only the first output connector of every visited node
AssignedConnectorsFirst(G) ==
  {<<n, 1>> : n \in {m \in Range(VisitOrder(G)) : Len(G.nodes[m].outs) > 0}}

\* The output connectors the visitor's callback is called on
AssignedConnectors(G) == UNION {Range(Outputs(G, n)) : n \in Range(VisitOrder(G))}

assign_allocations(G, bufs, pool) ==
  [c \in AssignedConnectors(G) |-> BufferAllocation(G, bufs, pool, c)]

AssignAllocations ==
  /\ pc = "assign_allocations"
  /\ result' = [result EXCEPT !.allocations =
                   assign_allocations(graph, logical_buffers, physical_buffers)]
  /\ pc' = "done"
  /\ UNCHANGED <<graph, target, attrs, visited, cnt_age, next_buffer_id,
                 logical_buffers, map_order, physical_buffers>>

-----------------------------------------------------------------------------
(* schedule() as a whole *)

RECURSIVE LifetimeWalk(_, _, _)
LifetimeWalk(G, st, i) ==
  IF i > Len(VisitOrder(G)) THEN st
  ELSE LifetimeWalk(G, LifetimeVisit(G, st.bufs, st.next_id, st.age, VisitOrder(G)[i]), i + 1)

make_logical_buffers(G) ==
  LifetimeWalk(G, [bufs |-> <<>>, next_id |-> 0, age |-> 0, thrown |-> FALSE], 1).bufs

\* Every schedule_result a call of schedule() on G with the given allocators
\* can return: one for every iteration order of logical_buffers_, every
\* outcome of the sort and every placement the allocators may choose
schedule(G, tgt) ==
  LET aliased == analyze_buffer_alias(G, make_logical_buffers(G),
                                      [n \in NodeIds(G) |-> InitialAction(G, n)])
      indexed == fix_concat_indices(G, aliased.attrs, aliased.bufs)
  IN  UNION {LET closed == fix_lifetime(indexed, order)
                 pool == PhysicalPool(closed, order)
                 bound == BindPhysical(closed, pool)
             IN  {[compute_sequence |-> generate_compute_sequence(G, aliased.attrs),
                   allocations |-> assign_allocations(G, bound, a.pool),
                   max_usages |-> a.max_usages] :
                    a \in allocate_physical_buffers(G, tgt, bound, pool)} :
               order \in Perms(DOMAIN indexed)}

-----------------------------------------------------------------------------
Next ==
  \/ MakeLogicalBuffersVisit
  \/ AnalyzeBufferAlias
  \/ FixConcatIndices
  \/ FixLifetime
  \/ GenerateComputeSequence
  \/ MakePhysicalBuffers
  \/ AllocatePhysicalBuffers
  \/ AssignAllocations

Spec == Init /\ [][Next]_vars

-----------------------------------------------------------------------------
(* Properties *)

Allocated == pc \in {"assign_allocations", "done"}

\* The nodes some graph output depends on
RECURSIVE UpstreamClosure(_, _)
UpstreamClosure(G, S) ==
  LET T == S \cup {c[1] : c \in UNION {Range(Inputs(G, n)) : n \in S} \ {NoConnector}}
  IN  IF T = S THEN S ELSE UpstreamClosure(G, T)

ReachableNodes(G) == UpstreamClosure(G, Range(G.outputs))

ReachableConnectors(G) == {c \in AllConnectors(G) : c[1] \in ReachableNodes(G)}

\* The nodes whose output node n consumes directly or through view nodes
RECURSIVE ProducersThroughViews(_, _, _)
ProducersThroughViews(G, at, n) ==
  LET direct == {c[1] : c \in Range(Inputs(G, n)) \ {NoConnector}}
  IN  direct \cup UNION {ProducersThroughViews(G, at, p) : p \in {q \in direct : ~at[q]}}

\* C1: two distinct physical buffers of one memory region whose lifetimes
\* [birth, end) intersect are bound to disjoint byte ranges [start, start+size).
NonOverlap ==
  Allocated =>
    \A i, j \in DOMAIN physical_buffers :
      LET a == physical_buffers[i]
          b == physical_buffers[j]
          la == logical_buffers[a.owner]
          lb == logical_buffers[b.owner]
      IN  (/\ i # j
           /\ la.memory_location = lb.memory_location
           /\ \E t \in 0..cnt_age :
                 /\ la.birth <= t /\ t < la.birth + la.age
                 /\ lb.birth <= t /\ t < lb.birth + lb.age)
          => \/ a.allocation.start + a.allocation.size <= b.allocation.start
             \/ b.allocation.start + b.allocation.size <= a.allocation.start

\* Two buffers of non-zero size share a region and an instant of their lifetimes.
NonOverlapWitness ==
  /\ pc = "done"
  /\ \E i, j \in DOMAIN physical_buffers :
        LET a == physical_buffers[i]
            b == physical_buffers[j]
            la == logical_buffers[a.owner]
            lb == logical_buffers[b.owner]
        IN  /\ i # j
            /\ la.memory_location = lb.memory_location
            /\ \E t \in 0..cnt_age :
                  /\ la.birth <= t /\ t < la.birth + la.age
                  /\ lb.birth <= t /\ t < lb.birth + lb.age
            /\ a.allocation.size > 0 /\ b.allocation.size > 0
            /\ a.allocation.start # b.allocation.start

\* C2: the allocation of every aliased buffer c lies inside the allocation of
\* its alias root r: r.start <= c.start < r.start + r.size and
\* c.start + c.size <= r.start + r.size.
AliasInsideRoot ==
  pc = "done" =>
    \A c \in DOMAIN result.allocations :
      logical_buffers[c].parent.has =>
        LET ca == result.allocations[c]
            ra == result.allocations[logical_buffers[c].parent.parent]
        IN  /\ ra.start <= ca.start
            /\ ca.start < ra.start + ra.size
            /\ ca.start + ca.size <= ra.start + ra.size

\* C3: no buffer consumed by a graph-output node is allocated in the input
\* or rdata region (its alias root is never a model input or a constant).
OutputNeverAliasesInput ==
  pc = "done" =>
    \A c \in DOMAIN result.allocations :
      (\E in \in Connections(graph, c) : Opcode(graph, in[1]) = "output")
        => /\ result.allocations[c].memory_location \notin {"input", "rdata"}
           /\ logical_buffers[c].parent.has =>
                logical_buffers[logical_buffers[c].parent.parent].memory_location
                  \notin {"input", "rdata"}

\* C4: compute_sequence lists, once each, exactly the reachable nodes that
\* still carry the action bit, and a node comes after every listed node whose
\* output it consumes directly or through view nodes.
SequenceFidelity ==
  pc \in {"make_physical_buffers", "allocate_physical_buffers", "assign_allocations", "done"} =>
    LET seq == result.compute_sequence
    IN  /\ Range(seq) = {n \in ReachableNodes(graph) : attrs[n]}
        /\ \A i, j \in DOMAIN seq : i # j => seq[i] # seq[j]
        /\ \A i, j \in DOMAIN seq :
              seq[i] \in ProducersThroughViews(graph, attrs, seq[j]) => i < j

\* A demoted node is left out between two listed nodes that depend on each other.
SequenceFidelityWitness ==
  /\ pc = "done"
  /\ \E n \in ReachableNodes(graph) : InitialAction(graph, n) /\ ~attrs[n]
  /\ \E i, j \in DOMAIN result.compute_sequence :
        /\ i < j
        /\ result.compute_sequence[i]
             \in ProducersThroughViews(graph, attrs, result.compute_sequence[j])
        /\ \A c \in Range(Inputs(graph, result.compute_sequence[j])) :
              c[1] # result.compute_sequence[i]

\* C5 as stated: every output connector of every node of the graph has an
\* entry in result.allocations.
CoverageAllNodes ==
  pc = "done" => \A c \in AllConnectors(graph) : c \in DOMAIN result.allocations

\* C5 amended: result.allocations has one entry for every output connector of
\* every node that a graph output depends on, and for no other connector.
CoverageReachable ==
  pc = "done" => DOMAIN result.allocations = ReachableConnectors(graph)

\* A node with several outputs, one of them without consumer, is covered.
CoverageWitness ==
  /\ pc = "done"
  /\ \E n \in ReachableNodes(graph) :
        /\ Len(graph.nodes[n].outs) > 1
        /\ \E k \in DOMAIN graph.nodes[n].outs : Connections(graph, <<n, k>>) = {}
        /\ \A k \in DOMAIN graph.nodes[n].outs : <<n, k>> \in DOMAIN result.allocations

\* C6: with a deterministic allocator every run of schedule() on the graph
\* returns the result this run returned, whatever the iteration order of the
\* buffer map and the order the sort leaves equal births in.
Deterministic ==
  (pc = "done" /\ target = "first_fit") =>
    \A r \in schedule(graph, target) : r = result

\* C7 as stated: every parent descriptor has a begin as long as the parent's
\* rank with begin[i] + child.shape[i] <= parent.shape[i] in every dimension.
ParentBeginInBounds ==
  \A c \in DOMAIN logical_buffers :
    logical_buffers[c].parent.has =>
      LET d == logical_buffers[c].parent
      IN  /\ Len(d.begin) = Len(Shape(graph, d.parent))
          /\ \A i \in DOMAIN d.begin \cap DOMAIN Shape(graph, c) :
                d.begin[i] + Shape(graph, c)[i] <= Shape(graph, d.parent)[i]

\* C7 amended: every parent descriptor has a begin as long as the parent's
\* rank; for a child that is not the output of a bitcast the ranks agree and
\* begin[i] + child.shape[i] <= parent.shape[i] in every dimension; for the
\* output of a bitcast that points at the bitcast's own input begin is zero.
ParentBeginWellFormed ==
  \A c \in DOMAIN logical_buffers :
    logical_buffers[c].parent.has =>
      LET d == logical_buffers[c].parent
      IN  /\ Len(d.begin) = Len(Shape(graph, d.parent))
          /\ Opcode(graph, c[1]) # "bitcast" =>
                /\ Len(Shape(graph, c)) = Len(d.begin)
                /\ \A i \in DOMAIN d.begin :
                      d.begin[i] + Shape(graph, c)[i] <= Shape(graph, d.parent)[i]
          /\ (Opcode(graph, c[1]) = "bitcast" /\ d.parent = Inputs(graph, c[1])[1]) =>
                \A i \in DOMAIN d.begin : d.begin[i] = 0

\* After root promotion a concat input sits at a non-zero begin and a
\* reshaped alias of it has a shape that does not fit the root dimension-wise.
ParentBeginWitness ==
  /\ pc = "done"
  /\ \E c \in DOMAIN logical_buffers :
        /\ logical_buffers[c].parent.has
        /\ Opcode(graph, c[1]) # "bitcast"
        /\ \E i \in DOMAIN logical_buffers[c].parent.begin :
              logical_buffers[c].parent.begin[i] > 0
  /\ \E c \in DOMAIN logical_buffers :
        /\ logical_buffers[c].parent.has
        /\ Opcode(graph, c[1]) = "bitcast"
        /\ \E i \in DOMAIN logical_buffers[c].parent.begin \cap DOMAIN Shape(graph, c) :
              logical_buffers[c].parent.begin[i] + Shape(graph, c)[i]
                > Shape(graph, logical_buffers[c].parent.parent)[i]

\* C8 as stated: S1 (input([1,4], float32) -> relu -> output) makes two
\* logical buffers, puts relu's output in the data region, has
\* compute_sequence = [relu] and max_usages[data] = 16.
S1AsClaimed ==
  (pc = "done" /\ graph = GraphS1(4)) =>
    /\ Cardinality(DOMAIN logical_buffers) = 2
    /\ logical_buffers[<<2, 1>>].memory_location = "data"
    /\ result.compute_sequence = <<2>>
    /\ result.max_usages["data"] = 16

\* C8 amended: S1 makes two logical buffers, puts relu's output (which feeds
\* the graph output) in the output region, has compute_sequence = [relu],
\* max_usages[data] = 0 and max_usages[output] >= 16, = 16 with a first-fit
\* allocator.
S1Schedule ==
  (pc = "done" /\ graph = GraphS1(4)) =>
    /\ Cardinality(DOMAIN logical_buffers) = 2
    /\ logical_buffers[<<2, 1>>].memory_location = "output"
    /\ result.allocations[<<2, 1>>].memory_location = "output"
    /\ result.allocations[<<2, 1>>].size = 16
    /\ result.compute_sequence = <<2>>
    /\ result.max_usages["data"] = 0
    /\ result.max_usages["output"] >= 16
    /\ target = "first_fit" => result.max_usages["output"] = 16

\* S1 has been scheduled with a first-fit allocator.
S1Witness ==
  /\ pc = "done"
  /\ graph = GraphS1(4)
  /\ target = "first_fit"
  /\ result.compute_sequence = <<2>>
  /\ result.max_usages["output"] = 16

\* C9 as stated: in S6 (input -> opA -> opB -> opC -> output) the lifetimes
\* of opA.output and opC.output are disjoint and max_usages[data] is the byte
\* size of one tensor.
S6AsClaimed ==
  (pc = "done" /\ graph.name = "S6") =>
    LET a == logical_buffers[<<2, 1>>]
        c == logical_buffers[<<4, 1>>]
    IN  /\ (End(a) <= c.birth \/ End(c) <= a.birth)
        /\ result.max_usages["data"] = GetBytes(Type(graph, <<2, 1>>), Shape(graph, <<2, 1>>))

\* C9 amended: in S6 the lifetimes of opA.output and opC.output are disjoint,
\* but opC.output is in the output region; opA.output and opB.output are both
\* in the data region and their lifetimes intersect, so max_usages[data] is at
\* least the byte size of two tensors, and exactly that (with
\* max_usages[output] one tensor) with a first-fit allocator.
S6Schedule ==
  (pc = "done" /\ graph.name = "S6") =>
    LET a == logical_buffers[<<2, 1>>]
        b == logical_buffers[<<3, 1>>]
        c == logical_buffers[<<4, 1>>]
        tensor == GetBytes(Type(graph, <<2, 1>>), Shape(graph, <<2, 1>>))
    IN  /\ (End(a) <= c.birth \/ End(c) <= a.birth)
        /\ a.memory_location = "data" /\ b.memory_location = "data"
        /\ c.memory_location = "output"
        /\ a.birth < b.birth /\ b.birth < End(a)
        /\ result.max_usages["data"] >= 2 * tensor
        /\ target = "first_fit" =>
              /\ result.max_usages["data"] = 2 * tensor
              /\ result.max_usages["output"] = tensor

\* S6 has been scheduled with a first-fit allocator: opA.output and
\* opB.output sit side by side in the data region.
S6Witness ==
  /\ pc = "done"
  /\ graph.name = "S6"
  /\ target = "first_fit"
  /\ result.allocations[<<2, 1>>].start # result.allocations[<<3, 1>>].start
  /\ result.max_usages["data"] = 2 * result.allocations[<<2, 1>>].size

\* The outermost view concat of the chain of view concat c
RECURSIVE OutermostView(_, _, _)
OutermostView(G, at, c) ==
  LET p == DirectChildConcat(G, c)
  IN  IF p = 0 \/ at[p] THEN c ELSE OutermostView(G, at, p)

\* The extents along the axis of concat c of its inputs before the i-th
PrecedingExtent(G, c, i) ==
  SumSeq([j \in 1..(i - 1) |-> Shape(G, Inputs(G, c)[j])[G.nodes[c].axis + 1]])

AlongAxis(rank, axis, v) == [k \in 1..rank |-> IF k = axis + 1 THEN v ELSE 0]

\* The offset of the output of view concat c inside the output of the
\* outermost view concat of its chain
RECURSIVE ChainOffset(_, _, _)
ChainOffset(G, at, c) ==
  LET p == DirectChildConcat(G, c)
      rank == Len(Shape(G, <<c, 1>>))
  IN  IF p = 0 \/ at[p] THEN Zeros(rank)
      ELSE LET first == CHOOSE i \in DOMAIN Inputs(G, p) :
                           /\ Inputs(G, p)[i] = <<c, 1>>
                           /\ \A j \in 1..(i - 1) : Inputs(G, p)[j] # <<c, 1>>
           IN  ShapeAdd(AlongAxis(rank, G.nodes[p].axis, PrecedingExtent(G, p, first)),
                        ChainOffset(G, at, p))

\* C10: after the concat index resolver every input of every view concat c
\* points at the output of the outermost view concat of c's chain, with begin
\* the extents of the inputs before it along c's axis plus the offsets of the
\* enclosing view concats, and the inputs of c occupy pairwise disjoint
\* sub-regions.
ConcatOffsets ==
  pc = "fix_lifetime" =>
    \A c \in ReachableNodes(graph) :
      (Opcode(graph, c) = "concat" /\ ~attrs[c]) =>
        LET ins == Inputs(graph, c)
            rank == Len(Shape(graph, <<c, 1>>))
        IN  /\ \A i \in DOMAIN ins :
                  LET d == logical_buffers[ins[i]].parent
                  IN  /\ d.has
                      /\ d.parent = <<OutermostView(graph, attrs, c), 1>>
                      /\ d.begin =
                           ShapeAdd(AlongAxis(rank, graph.nodes[c].axis,
                                              PrecedingExtent(graph, c, i)),
                                    ChainOffset(graph, attrs, c))
            /\ \A i, j \in DOMAIN ins :
                  i < j =>
                    \E k \in 1..rank :
                      logical_buffers[ins[i]].parent.begin[k] + Shape(graph, ins[i])[k]
                        <= logical_buffers[ins[j]].parent.begin[k]

-----------------------------------------------------------------------------
(* The alias analyser's rules *)

AfterAlias ==
  pc \in {"fix_concat_indices", "fix_lifetime", "generate_compute_sequence",
          "make_physical_buffers", "allocate_physical_buffers",
          "assign_allocations", "done"}

\* (1) the axis of concat c is the outermost one that is not of extent 1
OutermostAxis(G, c) ==
  \A x \in Range(Inputs(G, c)) : \A d \in 1..G.nodes[c].axis : Shape(G, x)[d] = 1

\* (2) no input of concat c is a model input, a constant or the output of a slice
InputsWritable(G, bufs, c) ==
  \A x \in Range(Inputs(G, c)) :
    /\ bufs[x].memory_location # "input"
    /\ bufs[x].memory_location # "rdata"
    /\ Opcode(G, x[1]) # "slice"

\* (3) fewer than two consumers of the output of concat c are concats
FewConcatConsumers(G, c) ==
  \A in1, in2 \in Connections(G, <<c, 1>>) :
    (Opcode(G, in1[1]) = "concat" /\ Opcode(G, in2[1]) = "concat") => in1 = in2

\* C11: once the alias analyser has run a visited concat has lost its action
\* bit if and only if (1), (2) and (3) hold; a concat that keeps the bit is in
\* the compute sequence and none of its inputs has the concat's output as
\* its parent.
ConcatViewRule ==
  AfterAlias =>
    \A c \in ReachableNodes(graph) :
      Opcode(graph, c) = "concat" =>
        /\ ~attrs[c] <=> /\ OutermostAxis(graph, c)
                         /\ InputsWritable(graph, logical_buffers, c)
                         /\ FewConcatConsumers(graph, c)
        /\ attrs[c] =>
              /\ \A x \in Range(Inputs(graph, c)) :
                    ~(logical_buffers[x].parent.has
                      /\ logical_buffers[x].parent.parent = <<c, 1>>)
              /\ pc = "done" => c \in Range(result.compute_sequence)

\* A schedule in which one concat stayed a copy, next to concats that became
\* views, and is executed.
ConcatViewRuleWitness ==
  /\ pc = "done"
  /\ \E c, d \in ReachableNodes(graph) :
        /\ Opcode(graph, c) = "concat" /\ attrs[c]
        /\ Opcode(graph, d) = "concat" /\ ~attrs[d]
        /\ c \in Range(result.compute_sequence)
        /\ ~FewConcatConsumers(graph, c)

\* The analyser's state when it has visited the first k nodes
RECURSIVE AliasPrefix(_, _, _)
AliasPrefix(G, st, k) ==
  IF k = 0 THEN st ELSE AliasVisit(G, AliasPrefix(G, st, k - 1), VisitOrder(G)[k])

\* The bitcast at position k of the visiting order, with the tags `pre` it is
\* visited with, has the effect the rule prescribes on the buffers and bits
\* `bufs` and `at` the analyser ends with.
BitcastRuleAt(G, pre, bufs, at, k) ==
  LET n == VisitOrder(G)[k]
      in == Inputs(G, n)[1]
      out == <<n, 1>>
      retag == pre[out].memory_location = "output" /\ pre[in].memory_location = "data"
      in_loc == IF retag THEN "output" ELSE pre[in].memory_location
      excluded == pre[out].memory_location = "output" /\ in_loc \in {"input", "rdata"}
  IN  /\ retag => bufs[in].memory_location = "output"
      /\ ~excluded => /\ ~at[n]
                      /\ bufs[out].parent = ParentDesc(in, Zeros(Len(Shape(G, in))))
      /\ excluded => /\ at[n]
                     /\ ~bufs[out].parent.has

\* C12: the alias analyser treats every bitcast by the rule: with the tags at
\* the visit, in is retagged `output` when out is `output` and in is `data`;
\* the node then becomes a view with out.parent = (in, zeros of in's rank)
\* exactly when it is not the case that out is `output` and in is `input` or
\* `rdata`, and otherwise keeps its action bit and out stays without parent.
BitcastViewRule ==
  [][pc = "analyze_buffer_alias" =>
       \A k \in DOMAIN VisitOrder(graph) :
         Opcode(graph, VisitOrder(graph)[k]) = "bitcast" =>
           BitcastRuleAt(graph,
                         AliasPrefix(graph, [bufs |-> logical_buffers, attrs |-> attrs],
                                     k - 1).bufs,
                         logical_buffers', attrs', k)]_vars

\* The analyser has turned a bitcast into a view whose input was retagged
\* `output` on the way: no output node consumes that input.
BitcastViewRuleWitness ==
  /\ pc = "fix_concat_indices"
  /\ \E n \in ReachableNodes(graph) :
        /\ Opcode(graph, n) = "bitcast"
        /\ ~attrs[n]
        /\ logical_buffers[<<n, 1>>].parent.has
        /\ logical_buffers[Inputs(graph, n)[1]].memory_location = "output"
        /\ \A in \in Connections(graph, Inputs(graph, n)[1]) :
              Opcode(graph, in[1]) # "output"

-----------------------------------------------------------------------------
(* The lifetime builder *)

\* The callback has run on a node with an unconnected input
DanglingVisited ==
  \E k \in 1..visited : NoConnector \in Range(Inputs(graph, VisitOrder(graph)[k]))

\* C13: once the lifetime builder has met an input connector without a
\* producer the call of schedule() has ended with an error (or the process
\* with it) and no schedule result exists: the passes do not go on.
DanglingIsFatal ==
  DanglingVisited => (pc \in {"failed", "aborted"} /\ result = EmptyResult)

\* The clock value the callback is called with on visited node n
VisitClock(G, n) == (CHOOSE k \in DOMAIN VisitOrder(G) : VisitOrder(G)[k] = n) - 1

\* Every consumer of every visited connector is itself visited
ConsumersReachable(G) ==
  \A c \in ReachableConnectors(G) : \A in \in Connections(G, c) : in[1] \in ReachableNodes(G)

\* C14: when the lifetime builder has run on a graph whose visited connectors
\* have visited consumers only, every node was visited once (the clock equals
\* the number of reachable nodes), and every buffer with a consumer has
\* used_count 0, birth the clock of its producer's visit and end one past
\* the clock of its last consumer's visit; its birth lies before the birth
\* of the outputs of its consumers and its end is not before its birth.
LifetimeExact ==
  (pc = "analyze_buffer_alias" /\ ConsumersReachable(graph)) =>
    /\ visited = Len(VisitOrder(graph))
    /\ cnt_age = Cardinality(ReachableNodes(graph))
    /\ \A i, j \in DOMAIN VisitOrder(graph) :
          VisitOrder(graph)[i] = VisitOrder(graph)[j] => i = j
    /\ DOMAIN logical_buffers = ReachableConnectors(graph)
    /\ \A c \in ReachableConnectors(graph) :
          Connections(graph, c) # {} =>
            LET b == logical_buffers[c]
                last == SetMax({VisitClock(graph, in[1]) : in \in Connections(graph, c)})
            IN  /\ b.used_count = 0
                /\ b.birth = VisitClock(graph, c[1])
                /\ End(b) = last + 1
                /\ End(b) >= b.birth
                /\ \A in \in Connections(graph, c) :
                      \A k \in DOMAIN Outputs(graph, in[1]) :
                        b.birth < logical_buffers[<<in[1], k>>].birth

\* The builder has finished on such a graph, and one buffer with two
\* consumers visited at different times lives from its producer to the later one.
LifetimeExactWitness ==
  /\ pc = "analyze_buffer_alias"
  /\ ConsumersReachable(graph)
  /\ \E c \in DOMAIN logical_buffers :
        \E in1, in2 \in Connections(graph, c) :
          /\ VisitClock(graph, in1[1]) < VisitClock(graph, in2[1])
          /\ End(logical_buffers[c]) = VisitClock(graph, in2[1]) + 1
          /\ logical_buffers[c].age >= 3

\* How many of the first upto input connectors of node n are connected to c
Times(G, n, c, upto) == Cardinality({i \in 1..upto : Inputs(G, n)[i] = c})

\* C15: in every visit of the lifetime builder no used_count falls below 0;
\* a release that finds used_count at 0 ends the schedule with an error and
\* leaves it at 0, and every other release takes exactly one from the
\* used_count of the released buffer and nothing from any other buffer.
UsedCountRule ==
  [][pc = "make_logical_buffers" =>
       LET n == VisitOrder(graph)[visited + 1]
       IN  /\ \A c \in DOMAIN logical_buffers' : logical_buffers'[c].used_count >= 0
           /\ pc' = "failed" =>
                 \E i \in DOMAIN Inputs(graph, n) :
                   LET c == Inputs(graph, n)[i]
                   IN  /\ c \in DOMAIN logical_buffers
                       /\ logical_buffers[c].used_count = Times(graph, n, c, i - 1)
                       /\ logical_buffers'[c].used_count = 0
                       /\ \A d \in DOMAIN logical_buffers :
                             logical_buffers'[d].used_count =
                               logical_buffers[d].used_count - Times(graph, n, d, i - 1)
           /\ pc' # "failed" =>
                 \A d \in DOMAIN logical_buffers :
                   logical_buffers'[d].used_count =
                     logical_buffers[d].used_count
                       - Times(graph, n, d, Len(Inputs(graph, n)))]_vars

\* The schedule has failed on the release of a buffer that was at
\* used_count 0, after an earlier release had brought another buffer to 0.
UsedCountRuleWitness ==
  /\ pc = "failed"
  /\ logical_buffers[Inputs(graph, VisitOrder(graph)[visited])[1]].used_count = 0
  /\ \E d \in DOMAIN logical_buffers :
        /\ Connections(graph, d) # {}
        /\ logical_buffers[d].used_count = 0

-----------------------------------------------------------------------------
(* The lifetime closer *)

\* The parentless buffer the parent chain of c ends in, NoConnector when the
\* chain has not ended after fuel steps
RECURSIVE RootWithin(_, _, _)
RootWithin(bufs, c, fuel) ==
  IF ~bufs[c].parent.has THEN c
  ELSE IF fuel = 0 THEN NoConnector
  ELSE RootWithin(bufs, bufs[c].parent.parent, fuel - 1)

RootOf(bufs, c) == RootWithin(bufs, c, Cardinality(DOMAIN bufs))

\* C16: the parent relation the lifetime closer starts from has no cycle,
\* and whatever the order of its loop, afterwards every buffer that had a
\* parent points at the root of its former parent chain, which has no
\* parent; a buffer without parent stays without.
RootPromotion ==
  [][pc = "fix_lifetime" =>
       \A c \in DOMAIN logical_buffers :
         LET r == RootOf(logical_buffers, c)
         IN  /\ r # NoConnector
             /\ logical_buffers'[c].parent.has = logical_buffers[c].parent.has
             /\ logical_buffers[c].parent.has =>
                   /\ logical_buffers'[c].parent.parent = r
                   /\ ~logical_buffers'[r].parent.has]_vars

\* The closer has run on a chain of three view bitcasts and took the
\* output of the last one first: it points at the input of the first one.
RootPromotionWitness ==
  /\ pc = "generate_compute_sequence"
  /\ \E n, m, l \in ReachableNodes(graph) :
        /\ Opcode(graph, n) = "bitcast" /\ ~attrs[n] /\ Inputs(graph, n)[1] = <<m, 1>>
        /\ Opcode(graph, m) = "bitcast" /\ ~attrs[m] /\ Inputs(graph, m)[1] = <<l, 1>>
        /\ Opcode(graph, l) = "bitcast" /\ ~attrs[l]
        /\ map_order[1] = <<n, 1>>
        /\ logical_buffers[<<n, 1>>].parent.parent = Inputs(graph, l)[1]
        /\ ~logical_buffers[Inputs(graph, l)[1]].parent.has

\* The buffers aliased to r: those whose parent chain ends in r
AliasedTo(bufs, r) ==
  {c \in DOMAIN bufs : bufs[c].parent.has /\ RootOf(bufs, c) = r}

SetMin(S) == CHOOSE x \in S : \A y \in S : x <= y

\* C17: whatever the order of its loops, the lifetime closer leaves the
\* lifetime of every aliased buffer as it was, inside the lifetime of its
\* root, and gives every root the lifetime [min birth, max end) over its own
\* former lifetime and the lifetimes of the buffers aliased to it.
LifetimeHull ==
  [][pc = "fix_lifetime" =>
       \A b \in DOMAIN logical_buffers :
         IF logical_buffers[b].parent.has
         THEN LET r == logical_buffers'[b].parent.parent
              IN  /\ logical_buffers'[b].birth = logical_buffers[b].birth
                  /\ logical_buffers'[b].age = logical_buffers[b].age
                  /\ logical_buffers'[r].birth <= logical_buffers'[b].birth
                  /\ End(logical_buffers'[r]) >= End(logical_buffers'[b])
         ELSE LET family == {b} \cup AliasedTo(logical_buffers, b)
              IN  /\ logical_buffers'[b].birth =
                       SetMin({logical_buffers[c].birth : c \in family})
                  /\ End(logical_buffers'[b]) =
                       SetMax({End(logical_buffers[c]) : c \in family})]_vars

\* The closer has run, and a root with two aliased buffers is born before
\* its own producer was visited.
LifetimeHullWitness ==
  /\ pc = "generate_compute_sequence"
  /\ \E r \in DOMAIN logical_buffers :
        /\ ~logical_buffers[r].parent.has
        /\ logical_buffers[r].birth < VisitClock(graph, r[1])
        /\ \E c, d \in DOMAIN logical_buffers :
              /\ c # d
              /\ logical_buffers[c].parent.has /\ logical_buffers[c].parent.parent = r
              /\ logical_buffers[d].parent.has /\ logical_buffers[d].parent.parent = r
              /\ logical_buffers[c].birth # logical_buffers[d].birth

-----------------------------------------------------------------------------
(* The physical pool *)

PoolBuilt == pc \in {"allocate_physical_buffers", "assign_allocations", "done"}

\* C18: once the physical pool is built every logical buffer without parent
\* owns exactly one physical buffer and no other buffer owns one, the ids
\* are distinct and are 0 .. n-1, and every logical buffer is bound to the
\* physical buffer owned by the root of its parent chain.
PoolPerRoot ==
  PoolBuilt =>
    /\ \A i \in DOMAIN physical_buffers :
          /\ physical_buffers[i].owner \in DOMAIN logical_buffers
          /\ ~logical_buffers[physical_buffers[i].owner].parent.has
    /\ \A c \in DOMAIN logical_buffers :
          ~logical_buffers[c].parent.has =>
            Cardinality({i \in DOMAIN physical_buffers : physical_buffers[i].owner = c}) = 1
    /\ \A i, j \in DOMAIN physical_buffers :
          physical_buffers[i].id = physical_buffers[j].id => i = j
    /\ {physical_buffers[i].id : i \in DOMAIN physical_buffers}
          = 0..(Len(physical_buffers) - 1)
    /\ \A c \in DOMAIN logical_buffers :
          \E i \in DOMAIN physical_buffers :
            /\ physical_buffers[i].owner = RootOf(logical_buffers, c)
            /\ logical_buffers[c].physical = physical_buffers[i].id

\* The pool has just been built: there are several physical buffers, and an
\* aliased buffer is bound to the one of its root, which is not the first.
PoolPerRootWitness ==
  /\ pc = "allocate_physical_buffers"
  /\ Len(physical_buffers) >= 3
  /\ \E c \in DOMAIN logical_buffers :
        /\ logical_buffers[c].parent.has
        /\ logical_buffers[c].physical = logical_buffers[logical_buffers[c].parent.parent].physical
        /\ logical_buffers[c].physical > 0

-----------------------------------------------------------------------------
(* The materialised allocations *)

\* Row-major strides: the stride of a dimension is the product of the
\* extents after it
RowMajorStrides(shape) == [i \in DOMAIN shape |-> Product(SubSeq(shape, i + 1, Len(shape)))]

\* The inner product of strides and index, aligned at the innermost dimension
Dot(strides, index) ==
  SumSeq([j \in 1..Min2(Len(strides), Len(index)) |->
            strides[Len(strides) + 1 - j] * index[Len(index) + 1 - j]])

\* C19: every materialised allocation has size element_bytes * product of
\* its shape; parent_shape is the root's shape for an alias not produced by
\* a bitcast and the buffer's own shape otherwise; strides are the
\* row-major strides of parent_shape; start is the start of the root's
\* allocation, plus element_bytes * dot(strides, parent.begin) for an alias.
AllocationFormula ==
  pc = "done" =>
    \A c \in DOMAIN result.allocations :
      LET a == result.allocations[c]
          lbuf == logical_buffers[c]
          root == RootOf(logical_buffers, c)
          memory == (CHOOSE p \in Range(physical_buffers) : p.owner = root).allocation
      IN  /\ a.size = ElementBytes(Type(graph, c)) * Product(Shape(graph, c))
          /\ a.parent_shape = IF lbuf.parent.has /\ Opcode(graph, c[1]) # "bitcast"
                              THEN Shape(graph, root)
                              ELSE Shape(graph, c)
          /\ a.strides = RowMajorStrides(a.parent_shape)
          /\ a.start = IF lbuf.parent.has
                       THEN memory.start + ElementBytes(Type(graph, c))
                                             * Dot(RowMajorStrides(a.parent_shape),
                                                   lbuf.parent.begin)
                       ELSE memory.start

\* C20: at the end of the pipeline the output and the input of every bitcast
\* without action bit are bound to the same physical buffer.
ViewBitcastSharesBuffer ==
  pc = "done" =>
    \A n \in ReachableNodes(graph) :
      (Opcode(graph, n) = "bitcast" /\ ~attrs[n]) =>
        logical_buffers[<<n, 1>>].physical = logical_buffers[Inputs(graph, n)[1]].physical

-----------------------------------------------------------------------------
(* The lifetimes around a visit *)

\* Clock value t lies in the lifetime [birth, end) of buffer b
LiveAt(b, t) == b.birth <= t /\ t < End(b)

\* C21: for every node the lifetime builder has visited, at clock value t,
\* t lies in the lifetime [birth, end) of each of its output buffers and of
\* each of its input buffers; in particular no output buffer, with or
\* without consumers, has an empty lifetime.
VisitInsideLifetimes ==
  \A k \in 1..visited :
    LET n == VisitOrder(graph)[k]
        t == k - 1
    IN  /\ \A c \in Range(Outputs(graph, n)) :
              /\ LiveAt(logical_buffers[c], t)
              /\ logical_buffers[c].age > 0
        /\ \A c \in Range(Inputs(graph, n)) \ {NoConnector} :
              LiveAt(logical_buffers[c], t)

====
